---- MODULE Spec2Model ----
(***************************************************************************)
(* Story backlog / dependency engine of specify_cli:                       *)
(*   story_manager.py   UserStory, StoryBacklog                            *)
(*   workflow_runner.py WorkflowContext, WorkflowRunner                    *)
(*   bottleneck_detector.py, risk_analyzer.py, estimation_analyzer.py      *)
(* A backlog is the dict StoryBacklog.stories (story id -> UserStory); the *)
(* dict's insertion order is kept in `order`, because every loop of the    *)
(* engine iterates self.stories.values() in that order.                    *)
(* Story ids are strings in the code; they are modelled by integers whose  *)
(* order stands for the string order used by sort().                       *)
(***************************************************************************)
EXTENDS Integers, Sequences, FiniteSets, TLC

VARIABLES stories, order, config, last, nops, disk, peer, runner, context, files

vars == <<stories, order, config, last, nops, disk, peer, runner, context, files>>

\* ---- bounds ------------------------------------------------------------
NumStories == 2
MaxTasks == 1
MaxOps == 4
MaxHours == 2
\* stories in a backlog handed to an analyzer that counts them against 3
NumHistory == 3

StoryIds == 1..NumStories

\* ---- enums (story_manager.py) ------------------------------------------
DRAFT == "draft"
READY == "ready"
IN_PROGRESS == "in_progress"
COMPLETE == "complete"
BLOCKED == "blocked"
StoryStatus == {DRAFT, READY, IN_PROGRESS, COMPLETE, BLOCKED}

StoryPriority == {"p1", "p2", "p3"}

\* Python None where a story (id) is expected; story ids start at 1
None == 0

\* ---- small sequence helpers --------------------------------------------
Range(s) == {s[i] : i \in DOMAIN s}

\* list.index(x): position of the first occurrence
IndexOf(s, x) == CHOOSE i \in DOMAIN s : s[i] = x /\ \A j \in 1..(i - 1) : s[j] # x

\* del d[k] on a dict keeps the order of the remaining keys
RemoveKey(s, k) == SelectSeq(s, LAMBDA x : x # k)

Restrict(f, S) == [x \in S |-> f[x]]

\* a removal that also strikes the key from the lists of the remaining stories
DeleteStory_Cascades(b, id) ==
    [x \in DOMAIN b \ {id} |->
        [b[x] EXCEPT !.dependencies = SelectSeq(@, LAMBDA d : d # id),
                     !.blocked_by = SelectSeq(@, LAMBDA d : d # id)]]

\* del self.stories[story_id]
DeleteStory(b, id) == Restrict(b, DOMAIN b \ {id})

\* d[k] = v : an existing key keeps its position, a new key goes last
PutStory(b, id, s) == [x \in (DOMAIN b) \cup {id} |-> IF x = id THEN s ELSE b[x]]
PutOrder(ord, id) == IF id \in Range(ord) THEN ord ELSE Append(ord, id)

\* ---- StoryMetrics / UserStory methods ------------------------------------
\* a completion test that asks for more tasks than estimated
is_complete_MoreThanEstimated(s) == s.completed_tasks > s.estimated_tasks

\* StoryMetrics.is_complete
is_complete(s) == s.completed_tasks >= s.estimated_tasks

\* datetime.now(): the clock is read as the number of the call being made, so
\* later calls read later times
Now == nops + 1

mark_complete(s) == [s EXCEPT !.status = COMPLETE, !.completed_at = Now]

mark_blocked(s, blocker_ids) == [s EXCEPT !.status = BLOCKED, !.blocked_by = blocker_ids]

\* an unblock that clears the blockers and leaves the status Blocked
unblock_KeepsStatus(s) == [s EXCEPT !.blocked_by = <<>>]

\* UserStory.unblock
unblock(s) == [s EXCEPT !.blocked_by = <<>>, !.status = READY]

start_work(s) == [s EXCEPT !.status = IN_PROGRESS]

update_progress(s, completed_tasks, actual_hours) ==
    LET s1 == [s EXCEPT !.completed_tasks = completed_tasks,
                        !.actual_hours = IF actual_hours > 0 THEN actual_hours ELSE @]
    IN  IF is_complete(s1) /\ s1.status # COMPLETE THEN mark_complete(s1) ELSE s1

\* ---- StoryBacklog queries -------------------------------------------------
\* get_story(id) is self.stories.get(id); HasStory is its truth value
HasStory(b, id) == id \in DOMAIN b

check_dependencies_CountsDangling(b, id) ==
    IF ~HasStory(b, id) THEN <<>>
    ELSE SelectSeq(b[id].dependencies,
                   LAMBDA d : ~HasStory(b, d) \/ b[d].status # COMPLETE)

check_dependencies(b, id) ==
    IF ~HasStory(b, id) THEN <<>>
    ELSE SelectSeq(b[id].dependencies,
                   LAMBDA d : HasStory(b, d) /\ b[d].status # COMPLETE)

\* get_ready_stories: list comprehension over self.stories.values()
get_ready_stories(b, ord) ==
    SelectSeq(ord, LAMBDA id : b[id].status = READY /\ b[id].blocked_by = <<>>)

\* sort key (s.priority.value, s.id): tuple comparison, first the enum's
\* string value ("p1" < "p2" < "p3"), then the id
PriorityValue(p) == CASE p = "p1" -> 1 [] p = "p2" -> 2 [] p = "p3" -> 3

KeyLess_IdOnly(b, x, y) == x < y

KeyLess(b, x, y) ==
    \/ PriorityValue(b[x].priority) < PriorityValue(b[y].priority)
    \/ /\ b[x].priority = b[y].priority
       /\ x < y

\* list.sort(key=...): stable insertion of each element into the sorted prefix
RECURSIVE InsertSorted(_, _, _)
InsertSorted(b, sorted, x) ==
    IF sorted = <<>> THEN <<x>>
    ELSE IF KeyLess(b, x, Head(sorted)) THEN <<x>> \o sorted
    ELSE <<Head(sorted)>> \o InsertSorted(b, Tail(sorted), x)

RECURSIVE SortStories(_, _)
SortStories(b, s) ==
    IF s = <<>> THEN <<>>
    ELSE InsertSorted(b, SortStories(b, SubSeq(s, 1, Len(s) - 1)), s[Len(s)])

get_next_story(b, ord) ==
    LET ready_stories == get_ready_stories(b, ord)
    IN  IF ready_stories = <<>> THEN None
        ELSE SortStories(b, ready_stories)[1]

\* update_blocked_status: one pass over self.stories.values(); each story is
\* judged against the statuses as they are when the loop reaches it
UbsStep_UnblockNotCounted(b, id) ==
    LET incomplete_deps == check_dependencies(b, id)
    IN  IF incomplete_deps # <<>> /\ b[id].status # BLOCKED
        THEN [stories |-> [b EXCEPT ![id] = mark_blocked(@, incomplete_deps)], changed |-> 1]
        ELSE IF incomplete_deps = <<>> /\ b[id].status = BLOCKED
        THEN [stories |-> [b EXCEPT ![id] = unblock(@)], changed |-> 0]
        ELSE [stories |-> b, changed |-> 0]

UbsStep(b, id) ==
    LET incomplete_deps == check_dependencies(b, id)
    IN  IF incomplete_deps # <<>> /\ b[id].status # BLOCKED
        THEN [stories |-> [b EXCEPT ![id] = mark_blocked(@, incomplete_deps)], changed |-> 1]
        ELSE IF incomplete_deps = <<>> /\ b[id].status = BLOCKED
        THEN [stories |-> [b EXCEPT ![id] = unblock(@)], changed |-> 1]
        ELSE [stories |-> b, changed |-> 0]

RECURSIVE UbsLoop(_, _, _, _)
UbsLoop(b, ord, i, changed) ==
    IF i > Len(ord) THEN [stories |-> b, changed |-> changed]
    ELSE LET r == UbsStep(b, ord[i])
         IN  UbsLoop(r.stories, ord, i + 1, changed + r.changed)

update_blocked_status(b, ord) == UbsLoop(b, ord, 1, 0)

\* generate_dependency_graph / find_circular_dependencies
generate_dependency_graph(b) == [id \in DOMAIN b |-> b[id].dependencies]

GraphGet(graph, node) == IF node \in DOMAIN graph THEN graph[node] ELSE <<>>

\* A dfs whose "elif neighbor in rec_stack" branch is never taken
IsBackEdge_Never(neighbor, rec_stack) == FALSE

\* "elif neighbor in rec_stack": an already visited neighbor closes a cycle when
\* its dfs call is still open
IsBackEdge(neighbor, rec_stack) == neighbor \in rec_stack

\* a cycle reported as the whole path from the root of the search
Cycle_FromRoot(path, neighbor) == path \o <<neighbor>>

\* cycle = path[path.index(neighbor):] + [neighbor]
Cycle(path, neighbor) == SubSeq(path, IndexOf(path, neighbor), Len(path)) \o <<neighbor>>

\* dfs(node, path): st carries the closure variables visited and cycles;
\* rec_stack is the set of nodes whose dfs call is still open
RECURSIVE dfs(_, _, _, _, _), DfsNeighbors(_, _, _, _, _, _)
dfs(graph, node, path, rec_stack, st) ==
    DfsNeighbors(graph, node, Append(path, node), rec_stack \cup {node}, 1,
                 [st EXCEPT !.visited = @ \cup {node}])

DfsNeighbors(graph, node, path, rec_stack, j, st) ==
    LET nbrs == GraphGet(graph, node)
    IN  IF j > Len(nbrs) THEN st
        ELSE LET neighbor == nbrs[j]
                 st1 == IF neighbor \notin st.visited
                        THEN dfs(graph, neighbor, path, rec_stack, st)
                        ELSE IF IsBackEdge(neighbor, rec_stack)
                        THEN [st EXCEPT !.cycles = Append(@, Cycle(path, neighbor))]
                        ELSE st
             IN  DfsNeighbors(graph, node, path, rec_stack, j + 1, st1)

RECURSIVE FcdLoop(_, _, _, _)
FcdLoop(graph, ord, i, st) ==
    IF i > Len(ord) THEN st
    ELSE FcdLoop(graph, ord, i + 1,
                 IF ord[i] \notin st.visited THEN dfs(graph, ord[i], <<>>, {}, st) ELSE st)

find_circular_dependencies(b, ord) ==
    FcdLoop(generate_dependency_graph(b), ord, 1, [visited |-> {}, cycles |-> <<>>]).cycles

\* ---- BottleneckDetector.find_critical_path ------------------------------
\* graph[story.id] = {'dependencies', 'hours', 'status'}
CriticalGraph(b) ==
    [id \in DOMAIN b |-> [dependencies |-> b[id].dependencies,
                          hours |-> b[id].estimated_hours,
                          status |-> b[id].status]]

\* The interpreter ends a descent deeper than its recursion limit with a
\* RecursionError. A descent through distinct stories is at most NumStories deep
\* and one more call returns at once, so this limit is out of reach of every
\* descent that ends by itself.
RecursionLimit == NumStories + 2

\* a longest_path that expands a story again inside one descent
Revisited_Never(story_id, visited) == FALSE

\* "if story_id in visited"
Revisited(story_id, visited) == story_id \in visited

\* longest_path(story_id, visited) at call depth `depth`; raised: the call
\* ended with a RecursionError. Each dependency gets visited.copy(), so
\* `visited` holds exactly the stories of the current descent.
RECURSIVE longest_path(_, _, _, _), LongestDeps(_, _, _, _, _, _, _)
longest_path(graph, story_id, visited, depth) ==
    IF depth > RecursionLimit THEN [path |-> <<>>, hours |-> 0, raised |-> TRUE]
    ELSE IF Revisited(story_id, visited) THEN [path |-> <<>>, hours |-> 0, raised |-> FALSE]
    ELSE IF story_id \notin DOMAIN graph
    THEN [path |-> <<story_id>>, hours |-> 0, raised |-> FALSE]
    ELSE LET story_info == graph[story_id]
             hours == IF story_info.status = COMPLETE THEN 0 ELSE story_info.hours
         IN  IF story_info.dependencies = <<>>
             THEN [path |-> <<story_id>>, hours |-> hours, raised |-> FALSE]
             ELSE LET m == LongestDeps(graph, story_info.dependencies,
                                       visited \cup {story_id}, 1, <<>>, 0, depth)
                  IN  [path |-> Append(m.path, story_id), hours |-> m.hours + hours,
                       raised |-> m.raised]

\* "for dep_id in story_info['dependencies']": keeps the first dependency whose
\* hours are strictly greater than the best so far, starting from ([], 0.0)
LongestDeps(graph, deps, visited, j, max_path, max_hours, depth) ==
    IF j > Len(deps) THEN [path |-> max_path, hours |-> max_hours, raised |-> FALSE]
    ELSE LET dep == longest_path(graph, deps[j], visited, depth + 1)
         IN  IF dep.raised THEN dep
             ELSE IF dep.hours > max_hours
             THEN LongestDeps(graph, deps, visited, j + 1, dep.path, dep.hours, depth)
             ELSE LongestDeps(graph, deps, visited, j + 1, max_path, max_hours, depth)

\* stories that are a dependency of no story, in backlog order
LeafStories(b, ord) ==
    LET all_deps == UNION {Range(b[id].dependencies) : id \in DOMAIN b}
    IN  SelectSeq(ord, LAMBDA id : id \notin all_deps)

RECURSIVE CriticalLoop(_, _, _, _, _)
CriticalLoop(graph, leaves, i, critical_path, critical_hours) ==
    IF i > Len(leaves)
    THEN [path |-> critical_path, hours |-> critical_hours, raised |-> FALSE]
    ELSE LET r == longest_path(graph, leaves[i], {}, 1)
         IN  IF r.raised THEN r
             ELSE IF r.hours > critical_hours
             THEN CriticalLoop(graph, leaves, i + 1, r.path, r.hours)
             ELSE CriticalLoop(graph, leaves, i + 1, critical_path, critical_hours)

find_critical_path(b, ord) ==
    CriticalLoop(CriticalGraph(b), LeafStories(b, ord), 1, <<>>, 0)

\* ---- analyzers: derived reports over the backlog --------------------------
\* A report is modelled by its records and the figures taken from the backlog;
\* texts and the order by score are left out. A ratio is a fraction
\* <<numerator, denominator>>; ratios are compared by cross-multiplication. A
\* call that ends in an exception returns a record with raised = TRUE.
get_stories_by_status(b, ord, status) == SelectSeq(ord, LAMBDA id : b[id].status = status)

\* stories whose declared dependency dep_id exists and is not Complete
BlockedByStory(b, ord, dep_id) ==
    SelectSeq(ord, LAMBDA id : /\ dep_id \in Range(b[id].dependencies)
                               /\ HasStory(b, dep_id)
                               /\ b[dep_id].status # COMPLETE)

\* min(num / den, 1.0) as a fraction <<numerator, denominator>>
MinOne(num, den) == IF num >= den THEN <<1, 1>> ELSE <<num, den>>

\* a Bottleneck: its id, the stories it affects and its severity as a fraction
Bottleneck(kind, key, affected_stories, severity) ==
    [id |-> <<kind, key>>, affected_stories |-> affected_stories, severity |-> severity]

\* a story is flagged when blocking_count[story] holds at least 3 story ids
detect_dependency_bottlenecks(b, ord) ==
    {Bottleneck("BTL-DEP", dep_id, BlockedByStory(b, ord, dep_id),
                MinOne(Len(BlockedByStory(b, ord, dep_id)), 10)) :
        dep_id \in {d \in DOMAIN b : Len(BlockedByStory(b, ord, d)) >= 3}}

\* progress_percentage() < 30 for estimated_tasks > 20
detect_complexity_bottlenecks(b, ord) ==
    {Bottleneck("BTL-CPX", id, <<id>>, MinOne(b[id].estimated_tasks - 20, 30)) :
        id \in {x \in DOMAIN b : /\ b[x].status = IN_PROGRESS
                                  /\ b[x].estimated_tasks > 20
                                  /\ b[x].completed_tasks * 100 <
                                         30 * b[x].estimated_tasks}}

detect_status_bottlenecks(b, ord) ==
    LET in_progress == get_stories_by_status(b, ord, IN_PROGRESS)
        blocked == get_stories_by_status(b, ord, BLOCKED)
    IN  (IF Len(in_progress) > 5
         THEN {Bottleneck("BTL-STA", 1, in_progress, MinOne(Len(in_progress), 10))}
         ELSE {})
        \cup (IF Len(blocked) > 3
              THEN {Bottleneck("BTL-STA", 2, blocked, MinOne(Len(blocked), 5))}
              ELSE {})

\* the In Progress stories with actual_hours > estimated_hours * 1.5
OverDuration(b) ==
    {x \in DOMAIN b : /\ b[x].status = IN_PROGRESS
                      /\ 2 * b[x].actual_hours > 3 * b[x].estimated_hours}

\* overage = actual_hours / estimated_hours raises ZeroDivisionError for an
\* estimate of 0; severity = min((overage - 1) / 2, 1)
detect_duration_bottlenecks(b, ord) ==
    IF \E x \in OverDuration(b) : b[x].estimated_hours = 0
    THEN [raised |-> TRUE, bottlenecks |-> {}]
    ELSE [raised |-> FALSE,
          bottlenecks |->
              {Bottleneck("BTL-DUR", id, <<id>>,
                          MinOne(b[id].actual_hours - b[id].estimated_hours,
                                 2 * b[id].estimated_hours)) : id \in OverDuration(b)}]

\* the four detectors in turn; an exception of one of them ends the call
get_all_bottlenecks(b, ord) ==
    LET duration == detect_duration_bottlenecks(b, ord)
    IN  IF duration.raised THEN duration
        ELSE [raised |-> FALSE,
              bottlenecks |->
                  detect_dependency_bottlenecks(b, ord)
                      \cup detect_complexity_bottlenecks(b, ord)
                      \cup detect_status_bottlenecks(b, ord)
                      \cup duration.bottlenecks]

generate_bottleneck_report(b, ord) ==
    LET all == get_all_bottlenecks(b, ord)
        critical == find_critical_path(b, ord)
    IN  IF all.raised THEN [raised |-> TRUE]
        ELSE [raised |-> FALSE,
              total_bottlenecks |-> Cardinality(all.bottlenecks),
              critical_path_stories |-> critical.path,
              critical_path_hours |-> critical.hours]

\* the largest and the smallest member of a non-empty set of numbers
Max(S) == CHOOSE x \in S : \A y \in S : y <= x
Min(S) == CHOOSE x \in S : \A y \in S : x <= y

\* get_story_velocity: stories per week as a fraction <<stories, weeks>>.
\* completed_at counts whole days, so weeks = days / 7 is 0 only for 0 days
\* and len(completed_stories) / weeks is 7 * len(completed_stories) / days.
get_story_velocity(b, ord) ==
    LET completed_stories == get_stories_by_status(b, ord, COMPLETE)
        dated == SelectSeq(completed_stories, LAMBDA id : b[id].completed_at # None)
        completed_dates == {b[id].completed_at : id \in Range(dated)}
        days == Max(completed_dates) - Min(completed_dates)
    IN  IF completed_stories = <<>> THEN <<0, 1>>
        ELSE IF Len(dated) < 2 THEN <<0, 1>>
        ELSE IF days = 0 THEN <<Len(completed_stories), 1>>
        ELSE <<7 * Len(completed_stories), days>>

\* RiskAnalyzer._calculate_dependency_chain_length(story_id, visited)
RECURSIVE calculate_dependency_chain_length(_, _, _), ChainDepthLoop(_, _, _, _, _)
calculate_dependency_chain_length(b, story_id, visited) ==
    IF story_id \in visited THEN 0
    ELSE IF ~HasStory(b, story_id) \/ b[story_id].dependencies = <<>> THEN 1
    ELSE ChainDepthLoop(b, b[story_id].dependencies, visited \cup {story_id}, 1, 0) + 1

ChainDepthLoop(b, deps, visited, j, max_depth) ==
    IF j > Len(deps) THEN max_depth
    ELSE LET depth == calculate_dependency_chain_length(b, deps[j], visited)
         IN  ChainDepthLoop(b, deps, visited, j + 1,
                            IF depth > max_depth THEN depth ELSE max_depth)

RECURSIVE SumOver(_, _, _)
SumOver(b, ids, field) ==
    IF ids = <<>> THEN 0 ELSE b[Head(ids)][field] + SumOver(b, Tail(ids), field)

analyze_schedule_risks(b, ord) ==
    (IF get_story_velocity(b, ord)[1] < get_story_velocity(b, ord)[2]
     THEN {"RISK-SCH-001"} ELSE {})
    \cup (IF Len(ord) > 0 /\ 5 * Len(get_stories_by_status(b, ord, BLOCKED)) > Len(ord)
          THEN {"RISK-SCH-002"} ELSE {})

analyze_technical_risks(b, ord) ==
    IF \E id \in DOMAIN b : b[id].estimated_tasks > 15 THEN {"RISK-TECH-001"} ELSE {}

analyze_dependency_risks(b, ord) ==
    (IF find_circular_dependencies(b, ord) # <<>> THEN {"RISK-DEP-001"} ELSE {})
    \cup (IF \E id \in DOMAIN b : calculate_dependency_chain_length(b, id, {}) > 5
          THEN {"RISK-DEP-002"} ELSE {})

\* average test coverage of the Complete stories below 70
analyze_quality_risks(b, ord) ==
    LET done == get_stories_by_status(b, ord, COMPLETE)
    IN  IF done # <<>> /\ SumOver(b, done, "test_coverage") < 70 * Len(done)
        THEN {"RISK-QUA-001"} ELSE {}

\* actual / estimated above 1.5 or below 0.5 over at least 3 Complete stories
analyze_estimation_risks(b, ord) ==
    LET done == get_stories_by_status(b, ord, COMPLETE)
        total_estimated == SumOver(b, done, "estimated_hours")
        total_actual == SumOver(b, done, "actual_hours")
    IN  IF /\ Len(done) >= 3
           /\ total_estimated > 0
           /\ (2 * total_actual > 3 * total_estimated \/ 2 * total_actual < total_estimated)
        THEN {"RISK-EST-001"} ELSE {}

get_all_risks(b, ord) ==
    analyze_schedule_risks(b, ord) \cup analyze_technical_risks(b, ord)
        \cup analyze_dependency_risks(b, ord) \cup analyze_quality_risks(b, ord)
        \cup analyze_estimation_risks(b, ord)

\* EstimationAnalyzer.calculate_overall_metrics: None below 3 Complete stories
\* or without any estimate; the figures kept are the counts and the totals
calculate_overall_metrics(b, ord) ==
    LET completed_stories == get_stories_by_status(b, ord, COMPLETE)
        estimated == SelectSeq(completed_stories, LAMBDA id : b[id].estimated_hours # 0)
    IN  IF Len(completed_stories) < 3 \/ SumOver(b, estimated, "estimated_hours") = 0
        THEN [found |-> FALSE]
        ELSE [found |-> TRUE,
              story_count |-> Len(completed_stories),
              total_estimated_hours |-> SumOver(b, estimated, "estimated_hours"),
              total_actual_hours |-> SumOver(b, estimated, "actual_hours")]

generate_report(b, ord) ==
    LET metrics == calculate_overall_metrics(b, ord)
    IN  IF ~metrics.found THEN [status |-> "insufficient_data"]
        ELSE [status |-> "analyzed", overall_metrics |-> metrics]

\* sum of actual_hours / estimated_hours over ids, as a fraction
RECURSIVE SumRatios(_, _)
SumRatios(b, ids) ==
    IF ids = <<>> THEN <<0, 1>>
    ELSE LET rest == SumRatios(b, Tail(ids))
             s == b[Head(ids)]
         IN  <<rest[1] * s.estimated_hours + s.actual_hours * rest[2],
               rest[2] * s.estimated_hours>>

\* get_estimation_by_complexity: the Complete stories with an estimate, grouped
\* by estimated_tasks; a group without stories has no entry in the result
get_estimation_by_complexity(b, ord) ==
    LET estimated == SelectSeq(get_stories_by_status(b, ord, COMPLETE),
                               LAMBDA id : b[id].estimated_hours # 0)
        groups == [simple |-> SelectSeq(estimated, LAMBDA id : b[id].estimated_tasks <= 5),
                   medium |-> SelectSeq(estimated, LAMBDA id : /\ b[id].estimated_tasks > 5
                                                               /\ b[id].estimated_tasks <= 10),
                   complex |-> SelectSeq(estimated, LAMBDA id : b[id].estimated_tasks > 10)]
    IN  [c \in {g \in DOMAIN groups : groups[g] # <<>>} |->
            [count |-> Len(groups[c]),
             avg_ratio |-> <<SumRatios(b, groups[c])[1],
                             SumRatios(b, groups[c])[2] * Len(groups[c])>>]]

\* the complexity group predict_story_duration adjusts by, "none" when the
\* if / elif chain takes no branch
ComplexityGroup(complexity_metrics, task_count) ==
    IF task_count <= 5 /\ "simple" \in DOMAIN complexity_metrics THEN "simple"
    ELSE IF task_count <= 10 /\ "medium" \in DOMAIN complexity_metrics THEN "medium"
    ELSE IF "complex" \in DOMAIN complexity_metrics THEN "complex"
    ELSE "none"

\* (predicted_hours, confidence_interval): without metrics the estimate and
\* half of it. With metrics predicted = estimated_hours * accuracy_ratio, and
\* for a complexity group with an entry predicted is multiplied by
\* avg_ratio / accuracy_ratio, which raises ZeroDivisionError for
\* accuracy_ratio = total_actual / total_estimated = 0. The confidence is
\* predicted times the standard deviation of the ratios, which is not computed.
predict_story_duration(b, ord, estimated_hours, task_count) ==
    LET metrics == calculate_overall_metrics(b, ord)
        complexity_metrics == get_estimation_by_complexity(b, ord)
        group == ComplexityGroup(complexity_metrics, task_count)
    IN  IF ~metrics.found
        THEN [raised |-> FALSE, basis |-> "estimate",
              predicted |-> <<estimated_hours, 1>>,
              confidence |-> <<estimated_hours, 2>>]
        ELSE IF group = "none"
        THEN [raised |-> FALSE, basis |-> "history",
              predicted |-> <<estimated_hours * metrics.total_actual_hours,
                              metrics.total_estimated_hours>>]
        ELSE IF metrics.total_actual_hours = 0
        THEN [raised |-> TRUE, basis |-> "history"]
        ELSE [raised |-> FALSE, basis |-> "history",
              predicted |-> <<estimated_hours * complexity_metrics[group].avg_ratio[1],
                              complexity_metrics[group].avg_ratio[2]>>]

\* ---- WorkflowRunner.mark_story_complete ---------------------------------
\* a scan that unblocks a dependent without looking at its other dependencies
MscStep_IgnoresOtherDependencies(b, story_id, other) ==
    IF story_id \in Range(b[other].dependencies) /\ b[other].status = BLOCKED
    THEN [stories |-> [b EXCEPT ![other] = unblock(@)], unblocked |-> <<other>>]
    ELSE [stories |-> b, unblocked |-> <<>>]

MscStep(b, story_id, other) ==
    IF /\ story_id \in Range(b[other].dependencies)
       /\ check_dependencies(b, other) = <<>>
       /\ b[other].status = BLOCKED
    THEN [stories |-> [b EXCEPT ![other] = unblock(@)], unblocked |-> <<other>>]
    ELSE [stories |-> b, unblocked |-> <<>>]

RECURSIVE MscLoop(_, _, _, _, _)
MscLoop(b, ord, story_id, i, unblocked) ==
    IF i > Len(ord) THEN [stories |-> b, unblocked |-> unblocked]
    ELSE LET r == MscStep(b, story_id, ord[i])
         IN  MscLoop(r.stories, ord, story_id, i + 1, unblocked \o r.unblocked)

mark_story_complete(b, ord, story_id, actual_hours, auto_unblock) ==
    IF ~HasStory(b, story_id) THEN [stories |-> b, unblocked |-> <<>>]
    ELSE LET b0 == IF actual_hours > 0
                   THEN [b EXCEPT ![story_id].actual_hours = actual_hours] ELSE b
             b1 == [b0 EXCEPT ![story_id] = mark_complete(@)]
         IN  IF auto_unblock THEN MscLoop(b1, ord, story_id, 1, <<>>)
             ELSE [stories |-> b1, unblocked |-> <<>>]

\* ---- WorkflowContext.can_proceed_to ---------------------------------------
WorkflowStage == {"specify", "clarify", "plan", "tasks", "implement"}

stage_order == <<"specify", "plan", "tasks", "implement">>

\* a check that also wants the target stage itself complete
StagesToCheck_IncludesTarget(target_index) == 1..target_index

\* "for i in range(target_index)": the stages before the target
StagesToCheck(target_index) == 1..(target_index - 1)

\* the loop returns False at the first stage that is not complete
RECURSIVE CanProceedLoop(_, _, _)
CanProceedLoop(completed_stages, indices, i) ==
    IF i \notin indices THEN TRUE
    ELSE IF stage_order[i] \notin completed_stages THEN FALSE
    ELSE CanProceedLoop(completed_stages, indices, i + 1)

\* stage_order.index(stage) raises ValueError for a stage that is not in the
\* list, which the method turns into False
can_proceed_to(completed_stages, stage) ==
    IF stage \notin Range(stage_order) THEN FALSE
    ELSE CanProceedLoop(completed_stages, StagesToCheck(IndexOf(stage_order, stage)), 1)

\* ---- WorkflowRunner: stages read from the feature directory ----------------
\* files: the documents present in the feature directory, and whether tasks.md
\* holds an unchecked task ("- [ ]")
FeatureFiles == {"spec.md", "plan.md", "tasks.md"}

NoFiles == [present |-> {}, unchecked |-> FALSE]

FeatureDirs ==
    {d \in [present : SUBSET FeatureFiles, unchecked : BOOLEAN] :
        d.unchecked => "tasks.md" \in d.present}

get_completed_stages(dir) ==
    (IF "spec.md" \in dir.present THEN {"specify"} ELSE {})
    \cup (IF "plan.md" \in dir.present THEN {"plan"} ELSE {})
    \cup (IF "tasks.md" \in dir.present THEN {"tasks"} ELSE {})
    \cup (IF "tasks.md" \in dir.present /\ ~dir.unchecked THEN {"implement"} ELSE {})

\* create_context(): the stages are read from the directory at the call
create_context(dir) == [completed_stages |-> get_completed_stages(dir)]

\* the stages before the target that are not complete, in stage order
MissingStages(completed_stages, target_index) ==
    SelectSeq(SubSeq(stage_order, 1, target_index - 1),
              LAMBDA st : st \notin completed_stages)

\* validate_prerequisites(stage): result is (is_valid, error_message). When
\* can_proceed_to is False the message is built from stage_order.index(stage),
\* which raises ValueError for a stage that is not in the list; nothing
\* catches it here.
validate_prerequisites(dir, stage) ==
    LET ctx == create_context(dir)
    IN  IF ~can_proceed_to(ctx.completed_stages, stage)
        THEN IF stage \notin Range(stage_order)
             THEN [raised |-> TRUE]
             ELSE [raised |-> FALSE,
                   result |-> <<FALSE,
                                <<"Missing prerequisites",
                                  MissingStages(ctx.completed_stages,
                                                IndexOf(stage_order, stage))>>>>]
        ELSE IF stage = "tasks" /\ "spec.md" \notin dir.present
        THEN [raised |-> FALSE, result |-> <<FALSE, <<"spec.md not found", <<>>>>>>]
        ELSE IF stage = "tasks" /\ "plan.md" \notin dir.present
        THEN [raised |-> FALSE, result |-> <<FALSE, <<"plan.md not found", <<>>>>>>]
        ELSE IF stage = "implement" /\ "tasks.md" \notin dir.present
        THEN [raised |-> FALSE, result |-> <<FALSE, <<"tasks.md not found", <<>>>>>>]
        ELSE [raised |-> FALSE, result |-> <<TRUE, None>>]

\* ---- WorkflowRunner.validate_story_ready --------------------------------
\* the error messages, by the condition that produces them
ValidationMessages ==
    {"Story backlog not initialized", "Story not found in backlog",
     "Story status is not ready", "Story has incomplete dependencies"}

\* a gate that does not look at the dependencies
validate_story_ready_SkipsDependencies(has_backlog, b, story_id, require_ready_status) ==
    IF ~has_backlog THEN <<FALSE, "Story backlog not initialized">>
    ELSE IF ~HasStory(b, story_id) THEN <<FALSE, "Story not found in backlog">>
    ELSE IF require_ready_status /\ b[story_id].status \notin {READY, IN_PROGRESS}
    THEN <<FALSE, "Story status is not ready">>
    ELSE <<TRUE, None>>

\* has_backlog: self.backlog is a StoryBacklog, not None
validate_story_ready(has_backlog, b, story_id, require_ready_status) ==
    IF ~has_backlog THEN <<FALSE, "Story backlog not initialized">>
    ELSE IF ~HasStory(b, story_id) THEN <<FALSE, "Story not found in backlog">>
    ELSE IF require_ready_status /\ b[story_id].status \notin {READY, IN_PROGRESS}
    THEN <<FALSE, "Story status is not ready">>
    ELSE IF check_dependencies(b, story_id) # <<>>
    THEN <<FALSE, "Story has incomplete dependencies">>
    ELSE <<TRUE, None>>

\* ---- persistence (stories/backlog.json) -----------------------------------
\* The file holds the whole mapping in insertion order. Enum members are
\* modelled by their values, which is what to_dict writes and from_dict reads.
NoFile == [exists |-> FALSE, stories |-> <<>>, order |-> <<>>]

\* _save_backlog: the file becomes the instance's whole in-memory mapping
SaveBacklog(b, ord) == [exists |-> TRUE, stories |-> b, order |-> ord]

\* StoryBacklog(feature_dir): self.stories = {} and then _load_backlog, which
\* reads the file if it exists
LoadBacklog(file) ==
    IF file.exists THEN [stories |-> file.stories, order |-> file.order]
    ELSE [stories |-> <<>>, order |-> <<>>]

\* a second StoryBacklog instance over the same feature directory
NoPeer == [constructed |-> FALSE, stories |-> <<>>, order |-> <<>>]

\* ---- inputs ---------------------------------------------------------------
RECURSIVE Ascending(_)
Ascending(S) ==
    IF S = {} THEN <<>>
    ELSE LET m == CHOOSE x \in S : \A y \in S : x <= y
         IN  <<m>> \o Ascending(S \ {m})

RECURSIVE Reverse(_)
Reverse(s) == IF s = <<>> THEN <<>> ELSE Append(Reverse(Tail(s)), Head(s))

\* the id lists a caller may pass as dependencies or blockers: any set of story
\* ids, the story's own id and ids of stories that do not exist included
DepLists == {Ascending(S) : S \in SUBSET StoryIds}

NewStory(priority, status, dependencies, blocked_by, estimated_tasks) ==
    [priority |-> priority, status |-> status, dependencies |-> dependencies,
     blocked_by |-> blocked_by, estimated_tasks |-> estimated_tasks,
     completed_tasks |-> 0, estimated_hours |-> MaxHours, actual_hours |-> 0,
     test_coverage |-> 0, completed_at |-> None]

\* ---- operations -----------------------------------------------------------
\* last: the most recent call, its argument and its return value
Call(name, arg, ret) == [op |-> name, arg |-> arg, ret |-> ret]

\* every call counts towards the bound on the length of a run
Tick == nops < MaxOps /\ nops' = nops + 1

AddStory(id, priority, status, dependencies, estimated_tasks) ==
    /\ Tick
    /\ stories' = PutStory(stories, id,
                           NewStory(priority, status, dependencies, <<>>, estimated_tasks))
    /\ order' = PutOrder(order, id)
    /\ last' = Call("add_story", id, None)
    /\ disk' = SaveBacklog(stories', order')
    /\ UNCHANGED <<config, peer, runner, context, files>>

\* update_story(story) with the object the backlog already holds: the entry
\* is overwritten in place by itself
UpdateStory(id) ==
    /\ Tick
    /\ HasStory(stories, id)
    /\ stories' = PutStory(stories, id, stories[id])
    /\ order' = PutOrder(order, id)
    /\ last' = Call("update_story", id, None)
    /\ disk' = SaveBacklog(stories', order')
    /\ UNCHANGED <<config, peer, runner, context, files>>

RemoveStory(id) ==
    /\ Tick
    /\ IF HasStory(stories, id)
       THEN /\ stories' = DeleteStory(stories, id)
            /\ order' = RemoveKey(order, id)
            /\ last' = Call("remove_story", id, TRUE)
            /\ disk' = SaveBacklog(stories', order')
       ELSE /\ last' = Call("remove_story", id, FALSE)
            /\ UNCHANGED <<stories, order, disk>>
    /\ UNCHANGED <<config, peer, runner, context, files>>

\* a UserStory method called on the object held by the backlog
StoryMethod(name, id, s) ==
    /\ Tick
    /\ stories' = [stories EXCEPT ![id] = s]
    /\ last' = Call(name, id, None)
    /\ UNCHANGED <<order, config, disk, peer, runner, context, files>>

StartWork(id) ==
    HasStory(stories, id) /\ StoryMethod("start_work", id, start_work(stories[id]))

MarkBlocked(id, blocker_ids) ==
    HasStory(stories, id) /\ StoryMethod("mark_blocked", id, mark_blocked(stories[id], blocker_ids))

Unblock(id) ==
    HasStory(stories, id) /\ StoryMethod("unblock", id, unblock(stories[id]))

MarkComplete(id) ==
    HasStory(stories, id) /\ StoryMethod("mark_complete", id, mark_complete(stories[id]))

\* story.update_progress(completed_tasks): actual_hours keeps its default 0
UpdateProgress(id, completed_tasks) ==
    HasStory(stories, id)
    /\ StoryMethod("update_progress", id, update_progress(stories[id], completed_tasks, 0))

UpdateBlockedStatus ==
    /\ Tick
    /\ LET r == update_blocked_status(stories, order)
       IN  /\ stories' = r.stories
           /\ last' = Call("update_blocked_status", None, r.changed)
           /\ disk' = IF r.changed > 0 THEN SaveBacklog(r.stories, order) ELSE disk
    /\ UNCHANGED <<order, config, peer, runner, context, files>>

\* workflow.mark_story_complete(id) on a runner that holds this backlog;
\* actual_hours keeps its default 0. Every update_story call saves.
MarkStoryComplete(id) ==
    /\ Tick
    /\ runner.backlog
    /\ LET r == mark_story_complete(stories, order, id, 0, config.AUTO_UNBLOCK_STORIES)
       IN  /\ stories' = r.stories
           /\ last' = Call("mark_story_complete", id, r.unblocked)
           /\ disk' = IF HasStory(stories, id) THEN SaveBacklog(r.stories, order) ELSE disk
    /\ UNCHANGED <<order, config, peer, runner, context, files>>

\* queries: they return a value and leave the backlog alone
GetNextStory ==
    /\ Tick
    /\ last' = Call("get_next_story", None, get_next_story(stories, order))
    /\ UNCHANGED <<stories, order, config, disk, peer, runner, context, files>>

CheckDependencies(id) ==
    /\ Tick
    /\ last' = Call("check_dependencies", id, check_dependencies(stories, id))
    /\ UNCHANGED <<stories, order, config, disk, peer, runner, context, files>>

FindCircularDependencies ==
    /\ Tick
    /\ last' = Call("find_circular_dependencies", None, find_circular_dependencies(stories, order))
    /\ UNCHANGED <<stories, order, config, disk, peer, runner, context, files>>

FindCriticalPath ==
    /\ Tick
    /\ last' = Call("find_critical_path", None, find_critical_path(stories, order))
    /\ UNCHANGED <<stories, order, config, disk, peer, runner, context, files>>

ValidateStoryReady(id) ==
    /\ Tick
    /\ last' = Call("validate_story_ready", id,
                    validate_story_ready(runner.backlog, stories, id,
                                         config.REQUIRE_READY_STATUS))
    /\ UNCHANGED <<stories, order, config, disk, peer, runner, context, files>>

CanProceedTo(stage) ==
    /\ Tick
    /\ last' = Call("can_proceed_to", stage, can_proceed_to(context.completed_stages, stage))
    /\ UNCHANGED <<stories, order, config, disk, peer, runner, context, files>>

\* context = runner.create_context()
CreateContext ==
    /\ Tick
    /\ context' = create_context(files)
    /\ last' = Call("create_context", None, None)
    /\ UNCHANGED <<stories, order, config, disk, peer, runner, files>>

ValidatePrerequisites(stage) ==
    /\ Tick
    /\ last' = Call("validate_prerequisites", stage, validate_prerequisites(files, stage))
    /\ UNCHANGED <<stories, order, config, disk, peer, runner, context, files>>

\* ---- operations of a second instance and of the runner ----------------------
\* peer.add_story(story): the peer's own mapping is changed and written out
PeerAddStory(id, priority, status, dependencies, estimated_tasks) ==
    /\ Tick
    /\ peer.constructed
    /\ LET b == PutStory(peer.stories, id,
                         NewStory(priority, status, dependencies, <<>>, estimated_tasks))
           ord == PutOrder(peer.order, id)
       IN  /\ peer' = [peer EXCEPT !.stories = b, !.order = ord]
           /\ disk' = SaveBacklog(b, ord)
    /\ last' = Call("peer.add_story", id, None)
    /\ UNCHANGED <<stories, order, config, runner, context, files>>

\* WorkflowRunner(feature_dir): the runner builds a StoryBacklog of its own,
\* loaded from the file, if the file exists, and holds None otherwise
CreateRunner ==
    /\ Tick
    /\ IF disk.exists
       THEN /\ runner' = [backlog |-> TRUE]
            /\ stories' = LoadBacklog(disk).stories
            /\ order' = LoadBacklog(disk).order
       ELSE /\ runner' = [backlog |-> FALSE]
            /\ UNCHANGED <<stories, order>>
    /\ last' = Call("WorkflowRunner", None, None)
    /\ UNCHANGED <<config, disk, peer, context, files>>

\* workflow.update_story_progress(id, completed_tasks, actual_hours)
UpdateStoryProgress(id, completed_tasks, actual_hours) ==
    /\ Tick
    /\ IF runner.backlog /\ config.AUTO_UPDATE_BACKLOG /\ HasStory(stories, id)
       THEN /\ stories' = [stories EXCEPT
                              ![id] = update_progress(@, completed_tasks, actual_hours)]
            /\ disk' = SaveBacklog(stories', order)
       ELSE UNCHANGED <<stories, disk>>
    /\ last' = Call("update_story_progress", id, None)
    /\ UNCHANGED <<order, config, peer, runner, context, files>>

\* an analyzer call: it reads the backlog it was given and returns a report
Analyze(name, arg, report) ==
    /\ Tick
    /\ last' = Call(name, arg, report)
    /\ UNCHANGED <<stories, order, config, disk, peer, runner, context, files>>

GetAllBottlenecks == Analyze("get_all_bottlenecks", None, get_all_bottlenecks(stories, order))

GenerateBottleneckReport ==
    Analyze("generate_bottleneck_report", None, generate_bottleneck_report(stories, order))

\* an analyzer that brings the blocked statuses up to date before it reads them
GetAllRisks_RefreshesBlockedStatus ==
    /\ Tick
    /\ stories' = update_blocked_status(stories, order).stories
    /\ last' = Call("get_all_risks", None, get_all_risks(stories', order))
    /\ UNCHANGED <<order, config, disk, peer, runner, context, files>>

GetAllRisks == Analyze("get_all_risks", None, get_all_risks(stories, order))

GenerateReport == Analyze("generate_report", None, generate_report(stories, order))

DetectDependencyBottlenecks ==
    Analyze("detect_dependency_bottlenecks", None,
            detect_dependency_bottlenecks(stories, order))

DetectDurationBottlenecks ==
    Analyze("detect_duration_bottlenecks", None,
            detect_duration_bottlenecks(stories, order))

GetStoryVelocity == Analyze("get_story_velocity", None, get_story_velocity(stories, order))

CalculateOverallMetrics ==
    Analyze("calculate_overall_metrics", None, calculate_overall_metrics(stories, order))

PredictStoryDuration(estimated_hours, task_count) ==
    Analyze("predict_story_duration", <<estimated_hours, task_count>>,
            predict_story_duration(stories, order, estimated_hours, task_count))

\* config.py: every flag at its default
DefaultConfig ==
    [AUTO_UNBLOCK_STORIES |-> TRUE, REQUIRE_READY_STATUS |-> TRUE,
     AUTO_UPDATE_BACKLOG |-> TRUE]

\* ---- Spec: a backlog built from empty by at most MaxOps calls ---------------
\* No operation of Spec reads a story's priority, so every story is added P1;
\* SpecNext varies the priorities.
Init ==
    /\ stories = <<>>
    /\ order = <<>>
    /\ config \in [AUTO_UNBLOCK_STORIES : BOOLEAN, REQUIRE_READY_STATUS : {TRUE},
                   AUTO_UPDATE_BACKLOG : {TRUE}]
    /\ last = Call("init", None, None)
    /\ nops = 0
    /\ disk = NoFile
    /\ peer = NoPeer
    /\ runner = [backlog |-> TRUE]
    /\ context = [completed_stages |-> {}]
    /\ files = NoFiles

Next ==
    \/ \E id \in StoryIds, st \in StoryStatus \ {BLOCKED}, d \in DepLists :
          AddStory(id, "p1", st, d, MaxTasks)
    \/ \E id \in StoryIds : UpdateStory(id)
    \/ \E id \in StoryIds : RemoveStory(id)
    \/ \E id \in StoryIds : StartWork(id)
    \/ \E id \in StoryIds, bl \in DepLists \ {<<>>} : MarkBlocked(id, bl)
    \/ \E id \in StoryIds : Unblock(id)
    \/ \E id \in StoryIds : MarkComplete(id)
    \/ \E id \in StoryIds, c \in 0..MaxTasks : UpdateProgress(id, c)
    \/ UpdateBlockedStatus
    \/ \E id \in StoryIds : MarkStoryComplete(id)

Spec == Init /\ [][Next]_vars

\* ---- SpecEngine: one engine call on a backlog as _load_backlog finds it ------
\* The stories of a loaded backlog: any status and any declared dependencies; a
\* Blocked story was blocked by its dependencies (mark_blocked(dependencies)),
\* the others carry no blockers.
LoadedStory(priority, status, dependencies) ==
    NewStory(priority, status, dependencies,
             IF status = BLOCKED THEN dependencies ELSE <<>>, MaxTasks)

EngineStories ==
    {LoadedStory("p1", st, d) : st \in StoryStatus, d \in DepLists}
        \ {LoadedStory("p1", BLOCKED, <<>>)}

\* the insertion orders drawn for a key set: ascending and descending ids
Orders(S) == {Ascending(S), Reverse(Ascending(S))}

InitEngine ==
    /\ \E S \in SUBSET StoryIds :
          /\ stories \in [S -> EngineStories]
          /\ order \in Orders(S)
    /\ config = DefaultConfig
    /\ last = Call("init", None, None)
    /\ nops = MaxOps - 1
    /\ disk = SaveBacklog(stories, order)
    /\ peer = NoPeer
    /\ runner = [backlog |-> TRUE]
    /\ context = [completed_stages |-> {}]
    /\ files = NoFiles

NextEngine ==
    \/ UpdateBlockedStatus
    \/ \E id \in StoryIds : CheckDependencies(id)
    \/ FindCircularDependencies

SpecEngine == InitEngine /\ [][NextEngine]_vars

\* ---- SpecStep: one completion or removal on a loaded backlog ----------------
NextStep ==
    \/ \E id \in StoryIds : MarkStoryComplete(id)
    \/ \E id \in StoryIds : RemoveStory(id)

SpecStep == InitEngine /\ [][NextStep]_vars

\* ---- SpecNext: one get_next_story call on a loaded backlog ------------------
\* any status and priority; blocked_by is empty or names another story
NextStories(id) ==
    {NewStory(p, st, <<>>, bl, MaxTasks) :
        p \in StoryPriority, st \in StoryStatus,
        bl \in {<<>>} \cup {<<x>> : x \in StoryIds \ {id}}}

InitNext ==
    /\ \E S \in SUBSET StoryIds :
          /\ stories \in [S -> UNION {NextStories(id) : id \in S}]
          /\ \A id \in S : stories[id] \in NextStories(id)
          /\ order \in Orders(S)
    /\ config = DefaultConfig
    /\ last = Call("init", None, None)
    /\ nops = MaxOps - 1
    /\ disk = SaveBacklog(stories, order)
    /\ peer = NoPeer
    /\ runner = [backlog |-> TRUE]
    /\ context = [completed_stages |-> {}]
    /\ files = NoFiles

NextNext == GetNextStory

SpecNext == InitNext /\ [][NextNext]_vars

\* ---- SpecPath: one find_critical_path call on a loaded backlog ------------
\* any declared dependencies (cycles, self-dependencies and ids of no story
\* included), any estimate from 0 to MaxHours; of the status only Complete or
\* not is read
PathStories ==
    {[NewStory("p1", st, d, <<>>, MaxTasks) EXCEPT !.estimated_hours = h] :
        st \in {READY, COMPLETE}, d \in DepLists, h \in 0..MaxHours}

InitPath ==
    /\ \E S \in SUBSET StoryIds :
          /\ stories \in [S -> PathStories]
          /\ order \in Orders(S)
    /\ config = DefaultConfig
    /\ last = Call("init", None, None)
    /\ nops = MaxOps - 1
    /\ disk = SaveBacklog(stories, order)
    /\ peer = NoPeer
    /\ runner = [backlog |-> TRUE]
    /\ context = [completed_stages |-> {}]
    /\ files = NoFiles

NextPath == FindCriticalPath

SpecPath == InitPath /\ [][NextPath]_vars

\* ---- SpecReady: one validate_story_ready call on a runner ------------------
\* The runner found no backlog file and holds None, or it holds a loaded
\* backlog; the require-ready-status flag is on or off.
InitReady ==
    /\ \/ /\ runner = [backlog |-> FALSE]
          /\ stories = <<>>
          /\ order = <<>>
          /\ disk = NoFile
       \/ /\ runner = [backlog |-> TRUE]
          /\ \E S \in SUBSET StoryIds :
                /\ stories \in [S -> EngineStories]
                /\ order \in Orders(S)
          /\ disk = SaveBacklog(stories, order)
    /\ config \in [AUTO_UNBLOCK_STORIES : {TRUE}, REQUIRE_READY_STATUS : BOOLEAN,
                   AUTO_UPDATE_BACKLOG : {TRUE}]
    /\ last = Call("init", None, None)
    /\ nops = MaxOps - 1
    /\ peer = NoPeer
    /\ context = [completed_stages |-> {}]
    /\ files = NoFiles

NextReady == \E id \in StoryIds : ValidateStoryReady(id)

SpecReady == InitReady /\ [][NextReady]_vars

\* ---- SpecStages: one can_proceed_to call on a workflow context --------------
\* completed_stages is any set of stages
InitStages ==
    /\ context \in [completed_stages : SUBSET WorkflowStage]
    /\ files = NoFiles
    /\ stories = <<>>
    /\ order = <<>>
    /\ disk = NoFile
    /\ peer = NoPeer
    /\ runner = [backlog |-> FALSE]
    /\ config = DefaultConfig
    /\ last = Call("init", None, None)
    /\ nops = MaxOps - 1

NextStages == \E stage \in WorkflowStage : CanProceedTo(stage)

SpecStages == InitStages /\ [][NextStages]_vars

\* ---- SpecShared: two StoryBacklog instances over one feature directory -------
\* Both instances are constructed over the empty directory; a WorkflowRunner
\* created later replaces the second instance by the backlog it loads.
InitShared ==
    /\ stories = <<>>
    /\ order = <<>>
    /\ disk = NoFile
    /\ peer = [NoPeer EXCEPT !.constructed = TRUE]
    /\ runner = [backlog |-> FALSE]
    /\ config \in [AUTO_UNBLOCK_STORIES : {TRUE}, REQUIRE_READY_STATUS : {TRUE},
                   AUTO_UPDATE_BACKLOG : BOOLEAN]
    /\ context = [completed_stages |-> {}]
    /\ files = NoFiles
    /\ last = Call("init", None, None)
    /\ nops = 0

NextShared ==
    \/ \E id \in StoryIds, st \in {READY, COMPLETE}, d \in DepLists :
          PeerAddStory(id, "p1", st, d, MaxTasks)
    \/ \E id \in StoryIds, st \in {READY, COMPLETE}, d \in DepLists :
          AddStory(id, "p1", st, d, MaxTasks)
    \/ \E id \in StoryIds : UpdateStory(id)
    \/ \E id \in StoryIds : RemoveStory(id)
    \/ UpdateBlockedStatus
    \/ CreateRunner
    \/ \E id \in StoryIds, c \in 0..MaxTasks, h \in 0..MaxHours :
          UpdateStoryProgress(id, c, h)
    \/ \E id \in StoryIds : MarkStoryComplete(id)

SpecShared == InitShared /\ [][NextShared]_vars

\* ---- SpecAnalyze: one analyzer call on a backlog ----------------------------
\* The backlog is as loaded; a story that was started may have hours spent on
\* it.
AnalyzeStories ==
    EngineStories \cup
        {[s EXCEPT !.actual_hours = MaxHours] :
            s \in {e \in EngineStories : e.status \in {IN_PROGRESS, COMPLETE}}}

InitAnalyze ==
    /\ \E S \in SUBSET StoryIds :
          /\ stories \in [S -> AnalyzeStories]
          /\ order \in Orders(S)
    /\ disk = SaveBacklog(stories, order)
    /\ config = DefaultConfig
    /\ last = Call("init", None, None)
    /\ nops = MaxOps - 1
    /\ peer = NoPeer
    /\ runner = [backlog |-> TRUE]
    /\ context = [completed_stages |-> {}]
    /\ files = NoFiles

NextAnalyze ==
    \/ GetAllBottlenecks
    \/ FindCriticalPath
    \/ GenerateBottleneckReport
    \/ GetAllRisks
    \/ GenerateReport
    \/ PredictStoryDuration(MaxHours, MaxTasks)
    \/ FindCircularDependencies

SpecAnalyze == InitAnalyze /\ [][NextAnalyze]_vars

\* ---- SpecHistory: one EstimationAnalyzer call on a backlog -------------------
\* Stories without dependencies, to be done or Complete; a Complete story has
\* an estimate of 0 or MaxHours and 0 or MaxHours spent.
HistoryIds == 1..NumHistory

HistoryStories ==
    {NewStory("p1", READY, <<>>, <<>>, MaxTasks)} \cup
        {[NewStory("p1", COMPLETE, <<>>, <<>>, MaxTasks)
             EXCEPT !.estimated_hours = e, !.actual_hours = a] :
            e \in {0, MaxHours}, a \in {0, MaxHours}}

InitHistory ==
    /\ \E S \in SUBSET HistoryIds :
          /\ stories \in [S -> HistoryStories]
          /\ order \in Orders(S)
    /\ disk = SaveBacklog(stories, order)
    /\ config = DefaultConfig
    /\ last = Call("init", None, None)
    /\ nops = MaxOps - 1
    /\ peer = NoPeer
    /\ runner = [backlog |-> TRUE]
    /\ context = [completed_stages |-> {}]
    /\ files = NoFiles

\* task counts of the simple and of the complex group
NextHistory ==
    \/ CalculateOverallMetrics
    \/ GenerateReport
    \/ \E h \in {0, MaxHours}, t \in {MaxTasks, 11} : PredictStoryDuration(h, t)

SpecHistory == InitHistory /\ [][NextHistory]_vars

\* ---- SpecBottleneck: one detect_dependency_bottlenecks call -----------------
\* Stories to be done or Complete with any declared dependencies, the story's
\* own id included.
BottleneckStories ==
    {NewStory("p1", st, Ascending(D), <<>>, MaxTasks) :
        st \in {READY, COMPLETE}, D \in SUBSET HistoryIds}

InitBottleneck ==
    /\ \E S \in SUBSET HistoryIds :
          /\ stories \in [S -> BottleneckStories]
          /\ order \in Orders(S)
    /\ disk = SaveBacklog(stories, order)
    /\ config = DefaultConfig
    /\ last = Call("init", None, None)
    /\ nops = MaxOps - 1
    /\ peer = NoPeer
    /\ runner = [backlog |-> TRUE]
    /\ context = [completed_stages |-> {}]
    /\ files = NoFiles

NextBottleneck == DetectDependencyBottlenecks

SpecBottleneck == InitBottleneck /\ [][NextBottleneck]_vars

\* ---- SpecVelocity: one get_story_velocity call -------------------------------
\* A Complete story was completed on one of the days 1..MaxOps or carries no
\* completion timestamp, as a story that was added Complete.
VelocityStories ==
    {NewStory("p1", READY, <<>>, <<>>, MaxTasks)} \cup
        {[NewStory("p1", COMPLETE, <<>>, <<>>, MaxTasks) EXCEPT !.completed_at = t] :
            t \in {None} \cup 1..MaxOps}

InitVelocity ==
    /\ \E S \in SUBSET HistoryIds :
          /\ stories \in [S -> VelocityStories]
          /\ order \in Orders(S)
    /\ disk = SaveBacklog(stories, order)
    /\ config = DefaultConfig
    /\ last = Call("init", None, None)
    /\ nops = MaxOps - 1
    /\ peer = NoPeer
    /\ runner = [backlog |-> TRUE]
    /\ context = [completed_stages |-> {}]
    /\ files = NoFiles

NextVelocity == GetStoryVelocity

SpecVelocity == InitVelocity /\ [][NextVelocity]_vars

\* ---- SpecProgress: one update_progress call on a story -----------------------
\* Any status and any estimate of tasks from 0; a Blocked story names a blocker;
\* a story may carry the timestamp of an earlier completion (day 1), and a
\* Complete story carries none when it was added Complete.
ProgressStories(id) ==
    {[NewStory("p1", st, <<>>, IF st = BLOCKED THEN <<id>> ELSE <<>>, e)
         EXCEPT !.completed_at = t] :
        st \in StoryStatus, e \in 0..MaxTasks, t \in {None, 1}}

InitProgress ==
    /\ \E S \in SUBSET StoryIds :
          /\ stories \in [S -> UNION {ProgressStories(id) : id \in S}]
          /\ \A id \in S : stories[id] \in ProgressStories(id)
          /\ order \in Orders(S)
    /\ disk = SaveBacklog(stories, order)
    /\ config = DefaultConfig
    /\ last = Call("init", None, None)
    /\ nops = MaxOps - 1
    /\ peer = NoPeer
    /\ runner = [backlog |-> TRUE]
    /\ context = [completed_stages |-> {}]
    /\ files = NoFiles

NextProgress == \E id \in StoryIds, c \in 0..MaxTasks : UpdateProgress(id, c)

SpecProgress == InitProgress /\ [][NextProgress]_vars

\* ---- SpecLoop: the implementation loop run to its end ------------------------
\* while True: update_blocked_status(); s = get_next_story(); if s is None:
\* break; mark_story_complete(s.id). The position in the loop is the call made
\* last; the loop is sequential, so a step that can be taken is taken.
RECURSIVE Peel(_, _)
\* S without the stories that can be put in dependency order
Peel(b, S) ==
    LET free == {id \in S : Range(b[id].dependencies) \cap S = {}}
    IN  IF free = {} THEN S ELSE Peel(b, S \ free)

\* the dependency graph of b has no cycle
Acyclic(b) == Peel(b, DOMAIN b) = {}

\* every story starts Ready with empty blocked_by
LoopStories == {NewStory(p, READY, d, <<>>, MaxTasks) : p \in StoryPriority, d \in DepLists}

\* the calls of a loop over NumStories stories that completes one per round
LoopLength == 3 * NumStories + 2

InitLoop ==
    /\ \E S \in SUBSET StoryIds :
          /\ stories \in [S -> LoopStories]
          /\ Acyclic(stories)
          /\ order \in Orders(S)
    /\ disk = SaveBacklog(stories, order)
    /\ config \in [AUTO_UNBLOCK_STORIES : BOOLEAN, REQUIRE_READY_STATUS : {TRUE},
                   AUTO_UPDATE_BACKLOG : {TRUE}]
    /\ last = Call("init", None, None)
    /\ nops = 0
    /\ peer = NoPeer
    /\ runner = [backlog |-> TRUE]
    /\ context = [completed_stages |-> {}]
    /\ files = NoFiles

LoopUpdateBlockedStatus ==
    /\ last.op \in {"init", "mark_story_complete"}
    /\ nops < LoopLength
    /\ nops' = nops + 1
    /\ LET r == update_blocked_status(stories, order)
       IN  /\ stories' = r.stories
           /\ last' = Call("update_blocked_status", None, r.changed)
           /\ disk' = IF r.changed > 0 THEN SaveBacklog(r.stories, order) ELSE disk
    /\ UNCHANGED <<order, config, peer, runner, context, files>>

LoopGetNextStory ==
    /\ last.op = "update_blocked_status"
    /\ nops < LoopLength
    /\ nops' = nops + 1
    /\ last' = Call("get_next_story", None, get_next_story(stories, order))
    /\ UNCHANGED <<stories, order, config, disk, peer, runner, context, files>>

LoopMarkStoryComplete ==
    /\ last.op = "get_next_story"
    /\ last.ret # None
    /\ nops < LoopLength
    /\ nops' = nops + 1
    /\ LET r == mark_story_complete(stories, order, last.ret, 0, config.AUTO_UNBLOCK_STORIES)
       IN  /\ stories' = r.stories
           /\ last' = Call("mark_story_complete", last.ret, r.unblocked)
           /\ disk' = SaveBacklog(r.stories, order)
    /\ UNCHANGED <<order, config, peer, runner, context, files>>

NextLoop ==
    \/ LoopUpdateBlockedStatus
    \/ LoopGetNextStory
    \/ LoopMarkStoryComplete

SpecLoop == InitLoop /\ [][NextLoop]_vars /\ WF_vars(NextLoop)

\* ---- SpecDuration: one bottleneck detection on stories in progress -----------
\* Stories to be done or In Progress, with any estimate and any hours spent
\* from 0 to MaxHours.
DurationStories ==
    {[NewStory("p1", st, <<>>, <<>>, MaxTasks)
         EXCEPT !.estimated_hours = e, !.actual_hours = a] :
        st \in {READY, IN_PROGRESS}, e \in 0..MaxHours, a \in 0..MaxHours}

InitDuration ==
    /\ \E S \in SUBSET StoryIds :
          /\ stories \in [S -> DurationStories]
          /\ order \in Orders(S)
    /\ disk = SaveBacklog(stories, order)
    /\ config = DefaultConfig
    /\ last = Call("init", None, None)
    /\ nops = MaxOps - 1
    /\ peer = NoPeer
    /\ runner = [backlog |-> TRUE]
    /\ context = [completed_stages |-> {}]
    /\ files = NoFiles

NextDuration ==
    \/ DetectDurationBottlenecks
    \/ GetAllBottlenecks

SpecDuration == InitDuration /\ [][NextDuration]_vars

\* ---- SpecPrereq: two calls on a runner over a feature directory -------------
\* The directory holds any of the three documents; the context a caller holds
\* is one created before any of them was written.
InitPrereq ==
    /\ files \in FeatureDirs
    /\ context = create_context(NoFiles)
    /\ stories = <<>>
    /\ order = <<>>
    /\ disk = NoFile
    /\ peer = NoPeer
    /\ runner = [backlog |-> FALSE]
    /\ config = DefaultConfig
    /\ last = Call("init", None, None)
    /\ nops = MaxOps - 2

NextPrereq ==
    \/ CreateContext
    \/ \E stage \in WorkflowStage : ValidatePrerequisites(stage)
    \/ \E stage \in WorkflowStage : CanProceedTo(stage)

SpecPrereq == InitPrereq /\ [][NextPrereq]_vars

\* ========================== claims =========================================
JustCalled(name) == last.op = name

Dependencies(id) == Range(stories[id].dependencies)

\* a dependency that resolves to a story which is not Complete
Unmet(id) == {d \in Dependencies(id) : d \in DOMAIN stories /\ stories[d].status # COMPLETE}

\* C1: in every state reachable through the story and backlog operations, a
\* story has status Blocked if and only if its blocked_by list is non-empty.
C1_BlockedIffBlockedBy ==
    \A id \in DOMAIN stories :
        (stories[id].status = BLOCKED) <=> (stories[id].blocked_by # <<>>)

\* C2: after update_blocked_status() returns, every story with a non-empty
\* dependencies list is Blocked if and only if at least one of its dependencies
\* is not Complete.
C2_BlockedIffUnmetDependency ==
    JustCalled("update_blocked_status") =>
        \A id \in DOMAIN stories :
            stories[id].dependencies # <<>> =>
                ((stories[id].status = BLOCKED) <=> (Unmet(id) # {}))

\* C3: a second update_blocked_status() right after the first returns 0 and
\* leaves every story as the first call left it.
C3_SecondCallChangesNothing ==
    JustCalled("update_blocked_status") =>
        LET again == update_blocked_status(stories, order)
        IN  again.changed = 0 /\ again.stories = stories

\* C4: Complete is terminal: no call of start_work, mark_blocked, unblock,
\* update_progress, mark_complete, update_blocked_status or mark_story_complete
\* takes a story that is Complete to another status.
StatusOperations ==
    {"start_work", "mark_blocked", "unblock", "update_progress", "mark_complete",
     "update_blocked_status", "mark_story_complete"}

C4_CompleteIsTerminal ==
    [][last'.op \in StatusOperations =>
         \A id \in DOMAIN stories :
             stories[id].status = COMPLETE => stories'[id].status = COMPLETE]_vars

\* C5: after update_blocked_status() returns, every story's blocked_by is the
\* list of its declared dependencies that are currently not Complete.
C5_BlockedByIsUnmetDependencies ==
    JustCalled("update_blocked_status") =>
        \A id \in DOMAIN stories :
            stories[id].blocked_by = check_dependencies(stories, id)

\* C6: update_blocked_status() is order-independent: any two iteration orders
\* of the same stories give the same statuses, blocked_by lists and count.
IterationOrders(ord) ==
    {o \in [1..Len(ord) -> Range(ord)] : Range(o) = Range(ord)}

C6_OrderIndependent ==
    \A o1, o2 \in IterationOrders(order) :
        update_blocked_status(stories, o1) = update_blocked_status(stories, o2)

\* C7: update_blocked_status() returns exactly the number of stories whose
\* status after the call differs from their status before the call.
C7_ReturnsChangedCount ==
    [][last'.op = "update_blocked_status" =>
         last'.ret = Cardinality({id \in DOMAIN stories :
                                     stories'[id].status # stories[id].status})]_vars

\* the call returned 1 and the one story it changed is a story it unblocked:
\* Ready, with dependencies that are all Complete, every other story Complete
C7_Witness ==
    /\ JustCalled("update_blocked_status")
    /\ last.ret = 1
    /\ \E id \in DOMAIN stories :
          /\ stories[id].status = READY
          /\ stories[id].dependencies # <<>>
          /\ \A d \in Dependencies(id) :
                d \in DOMAIN stories /\ stories[d].status = COMPLETE
          /\ \A other \in DOMAIN stories \ {id} : stories[other].status = COMPLETE

\* C8: get_next_story() returns None if no story is Ready with empty blocked_by;
\* otherwise it returns a story that is Ready with empty blocked_by and that no
\* other such story precedes by priority (P1, then P2, then P3) and, at equal
\* priority, by id.
ReadyUnblocked ==
    {id \in DOMAIN stories : stories[id].status = READY /\ stories[id].blocked_by = <<>>}

Precedes(x, y) ==
    \/ stories[x].priority = "p1" /\ stories[y].priority \in {"p2", "p3"}
    \/ stories[x].priority = "p2" /\ stories[y].priority = "p3"
    \/ stories[x].priority = stories[y].priority /\ x < y

C8_NextStoryIsFirstReady ==
    JustCalled("get_next_story") =>
        IF ReadyUnblocked = {} THEN last.ret = None
        ELSE /\ last.ret \in ReadyUnblocked
             /\ \A other \in ReadyUnblocked : ~Precedes(other, last.ret)

\* the returned story won on priority against an eligible story with a smaller id
C8_Witness ==
    /\ JustCalled("get_next_story")
    /\ last.ret \in ReadyUnblocked
    /\ \E other \in ReadyUnblocked : other < last.ret /\ Precedes(last.ret, other)

\* C9: check_dependencies(id) changes nothing; it returns [] for an unknown id
\* and, for a known story, exactly the declared dependencies that resolve to a
\* story whose status is not Complete (never an id that resolves to no story).
C9_CheckDependenciesResult ==
    [][last'.op = "check_dependencies" =>
         /\ stories' = stories
         /\ order' = order
         /\ IF last'.arg \in DOMAIN stories
            THEN /\ Range(last'.ret) = Unmet(last'.arg)
                 /\ \A d \in Range(last'.ret) : d \in DOMAIN stories
            ELSE last'.ret = <<>>]_vars

\* a known story with an unmet dependency and a dependency that resolves to no
\* story: the first is returned, the second is not
C9_Witness ==
    /\ JustCalled("check_dependencies")
    /\ last.arg \in DOMAIN stories
    /\ last.ret # <<>>
    /\ \E d \in Dependencies(last.arg) : d \notin DOMAIN stories

\* C10: find_circular_dependencies() returns a non-empty list if and only if
\* the dependency graph has a directed cycle, self-dependencies included.
DependsOn(S) == UNION {Dependencies(a) : a \in S \cap DOMAIN stories}

RECURSIVE ReachableIn(_, _)
ReachableIn(S, k) == IF k = 0 THEN {} ELSE DependsOn(S) \cup ReachableIn(DependsOn(S), k - 1)

HasCycle == \E a \in DOMAIN stories : a \in ReachableIn({a}, Cardinality(DOMAIN stories))

C10_CyclesFoundIffCyclic ==
    JustCalled("find_circular_dependencies") => ((last.ret # <<>>) <=> HasCycle)

\* a cycle through two different stories was reported
C10_Witness ==
    /\ JustCalled("find_circular_dependencies")
    /\ \E i \in DOMAIN last.ret : Len(last.ret[i]) = 3 /\ last.ret[i][1] # last.ret[i][2]

\* C11: for every acyclic backlog, find_critical_path() returns (path, hours)
\* where path is a dependency chain, dependencies first, that ends at a story no
\* other story depends on, hours is the sum of the remaining hours (0 if
\* Complete, else estimated_hours) over that chain, and no other such chain has
\* a greater sum.
C11_CriticalPathIsLongestChain ==
    LET Leaves == {id \in DOMAIN stories :
                      \A other \in DOMAIN stories : id \notin Dependencies(other)}
        IsChain(p) == /\ p # <<>>
                      /\ \A i \in DOMAIN p : p[i] \in DOMAIN stories
                      /\ \A i \in 1..(Len(p) - 1) : p[i] \in Dependencies(p[i + 1])
                      /\ p[Len(p)] \in Leaves
        Chains == {p \in UNION {[1..n -> DOMAIN stories] : n \in 1..NumStories} : IsChain(p)}
        Remaining(id) == IF stories[id].status = COMPLETE THEN 0
                         ELSE stories[id].estimated_hours
        Sum[n \in 0..NumStories, p \in Chains] ==
            IF n = 0 \/ n > Len(p) THEN 0 ELSE Remaining(p[n]) + Sum[n - 1, p]
        Total(p) == Sum[Len(p), p]
    IN  (JustCalled("find_critical_path") /\ ~HasCycle /\ DOMAIN stories # {}) =>
            /\ IsChain(last.ret.path)
            /\ last.ret.hours = Total(last.ret.path)
            /\ \A p \in Chains : Total(p) <= last.ret.hours

\* C12: find_critical_path() ends on every finite backlog, cycles,
\* self-dependencies and dangling ids included: no descent runs into the
\* recursion limit, and no story is expanded twice within the returned path.
C12_CriticalPathTerminates ==
    JustCalled("find_critical_path") =>
        /\ ~last.ret.raised
        /\ \A i, j \in DOMAIN last.ret.path :
               last.ret.path[i] = last.ret.path[j] => i = j

\* a path was returned for a backlog with a dependency cycle
C12_Witness ==
    /\ JustCalled("find_critical_path")
    /\ HasCycle
    /\ Len(last.ret.path) >= 2

\* the stories a completion of id is to release, judged on the backlog `before`
\* the call and the backlog `after` it: Blocked before, id among the declared
\* dependencies, no incomplete dependency after
Released(before, after, id, candidates) ==
    {s \in candidates : /\ before[s].status = BLOCKED
                        /\ id \in Range(before[s].dependencies)
                        /\ check_dependencies(after, s) = <<>>}

MscContract(id, released) ==
    /\ stories'[id].status = COMPLETE
    /\ Range(last'.ret) = released
    /\ Len(last'.ret) = Cardinality(released)
    /\ \A s \in released : stories'[s].status = READY /\ stories'[s].blocked_by = <<>>
    /\ \A s \in DOMAIN stories \ (released \cup {id}) :
           stories'[s].status = stories[s].status

\* C13 as stated: with auto-unblock enabled, mark_story_complete(id) on an
\* existing story sets it Complete and returns exactly the stories that were
\* Blocked, list id among their dependencies and have no incomplete dependency
\* after the completion; each returned story ends Ready with blocked_by == [],
\* and no other story's status changes.
C13_AsStated ==
    [][(last'.op = "mark_story_complete" /\ config.AUTO_UNBLOCK_STORIES
            /\ last'.arg \in DOMAIN stories) =>
         MscContract(last'.arg, Released(stories, stories', last'.arg, DOMAIN stories))]_vars

\* C13: with auto-unblock enabled, mark_story_complete(id) on an existing story
\* sets it Complete and returns exactly the other stories that were Blocked,
\* list id among their dependencies and have no incomplete dependency after the
\* completion; each returned story ends Ready with blocked_by == [], and no
\* other story's status changes.
C13_CompletionUnblocksDependents ==
    [][(last'.op = "mark_story_complete" /\ config.AUTO_UNBLOCK_STORIES
            /\ last'.arg \in DOMAIN stories) =>
         MscContract(last'.arg,
                     Released(stories, stories', last'.arg,
                              DOMAIN stories \ {last'.arg}))]_vars

\* a completion released a dependent that is now Ready
C13_Witness ==
    /\ JustCalled("mark_story_complete")
    /\ config.AUTO_UNBLOCK_STORIES
    /\ last.arg \in DOMAIN stories
    /\ stories[last.arg].status = COMPLETE
    /\ \E s \in Range(last.ret) : s # last.arg /\ stories[s].status = READY

\* C14: validate_story_ready(id) returns (True, None) if and only if a backlog
\* is loaded, the story exists, its status is Ready or InProgress (not required
\* when the require-ready-status flag is off) and it has no incomplete
\* dependency; otherwise it returns (False, message); it changes no state.
C14_ReadyGate ==
    [][last'.op = "validate_story_ready" =>
         LET id == last'.arg
             ready == /\ runner.backlog
                      /\ id \in DOMAIN stories
                      /\ config.REQUIRE_READY_STATUS =>
                             stories[id].status \in {READY, IN_PROGRESS}
                      /\ Unmet(id) = {}
         IN  /\ last'.ret[1] = ready
             /\ IF ready THEN last'.ret[2] = None
                ELSE last'.ret[2] \in ValidationMessages
             /\ UNCHANGED <<stories, order, config, disk, peer, runner, context, files>>]_vars

\* the gate let a story through whose declared dependencies are all Complete
C14_Witness ==
    /\ JustCalled("validate_story_ready")
    /\ last.ret[1]
    /\ last.arg \in DOMAIN stories
    /\ \E d \in Dependencies(last.arg) : d \in DOMAIN stories

\* C15: for each of the stages Specify, Plan, Tasks, Implement and every set of
\* completed stages, can_proceed_to(stage) is true if and only if every stage
\* before it in that order is complete; the target stage and the later stages
\* do not matter.
C15_ProceedIffEarlierStagesComplete ==
    LET Earlier == [specify |-> {}, plan |-> {"specify"}, tasks |-> {"specify", "plan"},
                    implement |-> {"specify", "plan", "tasks"}]
    IN  (JustCalled("can_proceed_to") /\ last.arg \in DOMAIN Earlier) =>
            (last.ret <=> Earlier[last.arg] \subseteq context.completed_stages)

\* Tasks may be entered although neither Tasks nor Implement is complete
C15_Witness ==
    /\ JustCalled("can_proceed_to")
    /\ last.arg = "tasks"
    /\ last.ret
    /\ context.completed_stages \cap {"tasks", "implement"} = {}

\* C16: a story change persisted through a WorkflowRunner (update_story_progress
\* or mark_story_complete) is observed by get_story on a StoryBacklog instance
\* constructed over the same feature directory before the runner: that instance
\* reports the new completed_tasks, actual_hours and status.
C16_EarlierInstanceSeesRunnerChange ==
    (/\ last.op \in {"update_story_progress", "mark_story_complete"}
     /\ peer.constructed
     /\ runner.backlog
     /\ last.op = "update_story_progress" => config.AUTO_UPDATE_BACKLOG
     /\ last.arg \in DOMAIN stories) =>
        /\ HasStory(peer.stories, last.arg)
        /\ peer.stories[last.arg].completed_tasks = stories[last.arg].completed_tasks
        /\ peer.stories[last.arg].actual_hours = stories[last.arg].actual_hours
        /\ peer.stories[last.arg].status = stories[last.arg].status

\* C17: every mutating backlog operation works on the currently persisted
\* mapping, so that when two instances over the same directory act one after
\* the other on different stories no write is lost: an add_story, update_story
\* or remove_story of one story leaves every other persisted story as it was,
\* and update_blocked_status drops no persisted story.
C17_NoLostWrite ==
    [][/\ last'.op \in {"add_story", "peer.add_story", "update_story", "remove_story"} =>
            \A id \in DOMAIN disk.stories \ {last'.arg} :
                id \in DOMAIN disk'.stories /\ disk'.stories[id] = disk.stories[id]
       /\ last'.op = "update_blocked_status" =>
            DOMAIN disk.stories \subseteq DOMAIN disk'.stories]_vars

\* C18: a story's completed_at is written only in a step in which its status
\* changes from a non-Complete value to Complete: it is not rewritten by an
\* operation on a story that is already Complete, and it never decreases.
\* (add_story puts a new story object under the id and is not such a step.)
C18_CompletedAtOnlyOnCompletion ==
    [][last'.op # "add_story" =>
         \A id \in DOMAIN stories \cap DOMAIN stories' :
             stories'[id].completed_at # stories[id].completed_at =>
                 /\ stories[id].status # COMPLETE
                 /\ stories'[id].status = COMPLETE
                 /\ stories'[id].completed_at > stories[id].completed_at]_vars

\* C19: remove_story(id) returns True and deletes exactly the entry for id when
\* it is present, and returns False and changes nothing when it is absent; every
\* other story's record is unchanged, dependencies and blocked_by lists that
\* name id included.
C19_RemoveDeletesOneEntry ==
    [][last'.op = "remove_story" =>
         LET id == last'.arg
         IN  /\ last'.ret = (id \in DOMAIN stories)
             /\ DOMAIN stories' = DOMAIN stories \ {id}
             /\ \A other \in DOMAIN stories \ {id} : stories'[other] = stories[other]
             /\ id \notin DOMAIN stories => (order' = order /\ disk' = disk)]_vars

\* a story was removed and a remaining story still names it as a dependency
C19_Witness ==
    /\ JustCalled("remove_story")
    /\ last.ret = TRUE
    /\ \E other \in DOMAIN stories : last.arg \in Dependencies(other)

\* C20: no analyzer operation (get_all_bottlenecks, find_critical_path,
\* generate_bottleneck_report, get_all_risks, generate_report,
\* predict_story_duration, find_circular_dependencies) changes the backlog: the
\* story mapping, every story's fields and the persisted file are the same
\* after the call as before.
AnalyzerOperations ==
    {"get_all_bottlenecks", "find_critical_path", "generate_bottleneck_report",
     "get_all_risks", "generate_report", "predict_story_duration",
     "find_circular_dependencies"}

C20_AnalyzersChangeNothing ==
    [][last'.op \in AnalyzerOperations =>
         /\ stories' = stories
         /\ order' = order
         /\ disk' = disk]_vars

\* the risk analysis reported a circular dependency on a backlog with a Blocked
\* story whose dependencies are all met, which a status refresh would unblock
C20_Witness ==
    /\ JustCalled("get_all_risks")
    /\ "RISK-DEP-001" \in last.ret
    /\ \E id \in DOMAIN stories : stories[id].status = BLOCKED /\ Unmet(id) = {}

\* the Complete stories that carry an estimate
EstimatedComplete ==
    {id \in DOMAIN stories : stories[id].status = COMPLETE /\ stories[id].estimated_hours > 0}

\* C21: calculate_overall_metrics() returns None, and generate_report() reports
\* status insufficient_data, whenever fewer than 3 Complete stories have
\* estimated_hours > 0, and returns metrics whenever at least 3 do.
C21_MetricsNeedThreeEstimated ==
    /\ JustCalled("calculate_overall_metrics") =>
           (last.ret.found <=> Cardinality(EstimatedComplete) >= 3)
    /\ JustCalled("generate_report") =>
           (last.ret.status = "insufficient_data" <=> Cardinality(EstimatedComplete) < 3)

\* the stories that list d as a dependency and have not reached Complete
IncompleteDependents(d) ==
    {s \in DOMAIN stories : d \in Dependencies(s) /\ stories[s].status # COMPLETE}

\* C22: detect_dependency_bottlenecks() flags a story if and only if at least 3
\* stories that have not themselves reached Complete list it as a dependency;
\* the flag's affected_stories are exactly those dependents and its severity is
\* min(count / 10, 1).
C22_FlaggedIffThreeIncompleteDependents ==
    JustCalled("detect_dependency_bottlenecks") =>
        /\ {f.id[2] : f \in last.ret} =
               {d \in DOMAIN stories : Cardinality(IncompleteDependents(d)) >= 3}
        /\ \A f \in last.ret :
               /\ Range(f.affected_stories) = IncompleteDependents(f.id[2])
               /\ Len(f.affected_stories) = Cardinality(IncompleteDependents(f.id[2]))
               /\ f.severity = MinOne(Cardinality(IncompleteDependents(f.id[2])), 10)

\* the Complete stories that carry a completion timestamp, and the timestamps
DatedComplete ==
    {id \in DOMAIN stories : stories[id].status = COMPLETE /\ stories[id].completed_at # None}

CompletionDays == {stories[id].completed_at : id \in DatedComplete}

\* C23: with completion timestamps taken as whole days, get_story_velocity()
\* returns 0 unless the Complete stories carry at least 2 distinct completion
\* timestamps; otherwise it returns the number of Complete stories that have a
\* completion timestamp divided by (latest minus earliest completion in days)
\* / 7, or that number itself when the span is zero weeks.
C23_VelocityOverDatedStories ==
    JustCalled("get_story_velocity") =>
        LET span == Max(CompletionDays) - Min(CompletionDays)
            expected == IF Cardinality(CompletionDays) < 2 THEN <<0, 1>>
                        ELSE IF span = 0 THEN <<Cardinality(DatedComplete), 1>>
                        ELSE <<7 * Cardinality(DatedComplete), span>>
        IN  last.ret[1] * expected[2] = expected[1] * last.ret[2]

\* C24: after mark_story_complete(id) returns for an existing story, id does
\* not appear in the blocked_by list of any story in the backlog, whether or
\* not that story was unblocked by the call.
C24_CompletedStoryBlocksNoOne ==
    (JustCalled("mark_story_complete") /\ HasStory(stories, last.arg)) =>
        \A s \in DOMAIN stories : last.arg \notin Range(stories[s].blocked_by)

\* C25 as stated: update_progress(completed_tasks, actual_hours) leaves the
\* story with status Complete and a non-null completed_at exactly when
\* completed_tasks >= estimated_tasks after the update (from any prior status,
\* estimated_tasks = 0 included) or the story was already Complete; when
\* completed_tasks < estimated_tasks the status is unchanged.
C25_AsStated ==
    [][\A id \in StoryIds, c \in 0..MaxTasks :
          UpdateProgress(id, c) =>
              /\ (stories'[id].status = COMPLETE /\ stories'[id].completed_at # None)
                     <=> (c >= stories[id].estimated_tasks \/ stories[id].status = COMPLETE)
              /\ c < stories[id].estimated_tasks =>
                     stories'[id].status = stories[id].status]_vars

\* C25: update_progress(completed_tasks, actual_hours) leaves the story with
\* status Complete exactly when completed_tasks >= estimated_tasks after the
\* update (from any prior status, estimated_tasks = 0 included) or the story
\* was already Complete; completed_at is set when the call makes the story
\* Complete and is left as it was otherwise, null included; when
\* completed_tasks < estimated_tasks the status is unchanged.
C25_ProgressCompletesStory ==
    [][\A id \in StoryIds, c \in 0..MaxTasks :
          UpdateProgress(id, c) =>
              /\ stories'[id].status = COMPLETE
                     <=> (c >= stories[id].estimated_tasks \/ stories[id].status = COMPLETE)
              /\ IF stories[id].status # COMPLETE /\ c >= stories[id].estimated_tasks
                 THEN stories'[id].completed_at # None
                 ELSE stories'[id].completed_at = stories[id].completed_at
              /\ c < stories[id].estimated_tasks =>
                     stories'[id].status = stories[id].status]_vars

\* a story with no estimated tasks that a call with 0 completed tasks has just
\* made Complete
C25_Witness ==
    /\ JustCalled("update_progress")
    /\ HasStory(stories, last.arg)
    /\ stories[last.arg].estimated_tasks = 0
    /\ stories[last.arg].completed_tasks = 0
    /\ stories[last.arg].status = COMPLETE
    /\ stories[last.arg].completed_at = nops

\* C26: every list returned by find_circular_dependencies() is a genuine cycle
\* of the dependency graph: its first and last elements are equal, and for each
\* consecutive pair (a, b) in the list, b is one of a's declared dependencies.
C26_ReportedCyclesAreCycles ==
    JustCalled("find_circular_dependencies") =>
        \A k \in DOMAIN last.ret :
            LET cycle == last.ret[k]
            IN  /\ Len(cycle) >= 2
                /\ cycle[1] = cycle[Len(cycle)]
                /\ \A i \in 1..(Len(cycle) - 1) :
                       /\ HasStory(stories, cycle[i])
                       /\ cycle[i + 1] \in Dependencies(cycle[i])

\* a reported cycle through two stories, found beyond the root of the search
C26_Witness ==
    /\ JustCalled("find_circular_dependencies")
    /\ \E k \in DOMAIN last.ret :
           /\ Len(last.ret[k]) = 3
           /\ last.ret[k][1] # last.ret[k][2]
    /\ \E k \in DOMAIN last.ret : Len(last.ret[k]) = 2 /\ last.ret[k][1] # order[1]

AllComplete == \A id \in DOMAIN stories : stories[id].status = COMPLETE

\* C27: for every backlog whose dependency graph is acyclic and in which every
\* story starts Ready with empty blocked_by, repeating the loop
\* {update_blocked_status(); s = get_next_story(); mark_story_complete(s.id)}
\* eventually makes every story Complete: get_next_story() returns None, which
\* ends the loop, only when no story is left incomplete.
C27_LoopCompletesEveryStory ==
    <>(JustCalled("get_next_story") /\ last.ret = None /\ AllComplete)

\* the loop has ended on a backlog of at least two stories in which a story was
\* blocked by a dependency and completed after it
C27_Witness ==
    /\ JustCalled("get_next_story")
    /\ last.ret = None
    /\ AllComplete
    /\ \E a, b \in DOMAIN stories :
           /\ a # b
           /\ a \in Dependencies(b)
           /\ stories[a].completed_at < stories[b].completed_at
           /\ Precedes(b, a)

\* C28: predict_story_duration(estimated_hours, task_count) returns a
\* (predicted, confidence) pair without raising for every backlog and every
\* non-negative input, including a backlog with at least 3 Complete stories
\* whose actual_hours are all 0 (historical accuracy_ratio = 0).
C28_PredictionNeverRaises ==
    JustCalled("predict_story_duration") => ~last.ret.raised

\* C29: detect_duration_bottlenecks() (and therefore get_all_bottlenecks())
\* returns a list without raising for every backlog with non-negative metrics,
\* including an InProgress story with estimated_hours = 0 and actual_hours > 0.
C29_DurationDetectionNeverRaises ==
    (JustCalled("detect_duration_bottlenecks") \/ JustCalled("get_all_bottlenecks")) =>
        ~last.ret.raised

\* C30: validate_prerequisites(stage) returns a (bool, message) pair without
\* raising for every member of WorkflowStage, including CLARIFY, and returns
\* (True, None) exactly when can_proceed_to(stage) is true for the stages
\* derived from the files present.
C30_PrerequisitesFollowCanProceed ==
    JustCalled("validate_prerequisites") =>
        /\ ~last.ret.raised
        /\ (last.ret.result[1] /\ last.ret.result[2] = None)
               <=> can_proceed_to(get_completed_stages(files), last.arg)

====
